---- MODULE Spec2Model ----
(***************************************************************************)
(* Model of MarinaBillingSystem.c: the BoatManager record store, the CSV   *)
(* text codec (sscanf / fprintf), the name ordering and the fee / payment  *)
(* arithmetic.                                                             *)
(*                                                                         *)
(* Representation.                                                         *)
(*  - A C string is a sequence of character codes (ASCII), without the     *)
(*    terminating NUL; CharAt gives 0 past the end.                        *)
(*  - A double holding a currency amount is an integer number of mills     *)
(*    (1/1000 of a currency unit), so 12.50 is 12500.  Amounts finer than  *)
(*    a mill are truncated by the scanner; all inputs of the model are     *)
(*    even numbers of mills, so "%.2f" never meets a rounding tie.         *)
(*  - A Boat* is an address in Ptrs, NULL is 0.  heap holds the live Boat  *)
(*    structs; malloc returns the lowest address that is not live, free    *)
(*    of an address that is not live (a second free) sets badFree.         *)
(*  - qsort() leaves the order of elements that compare equal unspecified: *)
(*    sortBoatsByName is the set of every sorted arrangement.              *)
(*  - lastOp / result record the menu command last executed and the        *)
(*    message it printed; cmds counts the commands read from stdin, which  *)
(*    holds at most MaxCmds of them before its end.                        *)
(***************************************************************************)
EXTENDS Integers, Sequences, FiniteSets, TLC

VARIABLES
    pc,        \* main: "start" before loadFromCSV, "menu" in the loop, "done" returned
    file,      \* the CSV file argv[1]: whether it exists, and its lines
    boats,     \* manager.boats
    numBoats,  \* manager.numBoats
    heap,      \* address -> the live Boat struct at it
    badFree,   \* free() was called on an address that is not live
    lastOp,    \* the command dispatched last
    result,    \* what that command reported
    cmds       \* commands read from stdin so far

vars == <<pc, file, boats, numBoats, heap, badFree, lastOp, result, cmds>>

\* ------------------------------------------------------------------ bounds
\* Capacity of the boats array (120 in the source, scaled down).
MAX_BOATS == 3
\* Menu commands on stdin before its end (the exit not counted).
MaxCmds == 3

\* --------------------------------------------------------------- constants
MAX_NAME == 128
\* Monthly rates per foot, in mills.
MONTH_SLIP == 12500
MONTH_LAND == 14000
MONTH_TRAILOR == 25000
MONTH_STORAGE == 11200
NULL == 0

\* Addresses malloc hands out: one more than the array can hold, for the
\* boat loadFromCSV creates and discards when the array is full.
Ptrs == 1..(MAX_BOATS + 1)
Slots == 0..(MAX_BOATS - 1)

\* ------------------------------------------------------------- characters
Comma == <<44>>
Newline == <<10>>

CharAt(s, i) == IF i >= 1 /\ i <= Len(s) THEN s[i] ELSE 0

tolower(c) == IF c >= 65 /\ c <= 90 THEN c + 32 ELSE c

isspace(c) == c \in {32, 9, 10, 11, 12, 13}

isdigit(c) == c >= 48 /\ c <= 57

Prefix(s, n) == SubSeq(s, 1, IF Len(s) < n THEN Len(s) ELSE n)

LowerStr(s) == [i \in 1..Len(s) |-> tolower(s[i])]

\* ------------------------------------------------------------ name order
RECURSIVE CompareFrom(_, _, _)
CompareFrom(a, b, i) ==
    LET ca == tolower(CharAt(a, i))
        cb == tolower(CharAt(b, i))
    IN  IF ca < cb THEN -1
        ELSE IF ca > cb THEN 1
        ELSE IF ca = 0 THEN 0
        ELSE CompareFrom(a, b, i + 1)

caseInsensitiveCompare(a, b) == CompareFrom(a, b, 1)

\* ------------------------------------------------------------- kind words
SlipWord == <<115, 108, 105, 112>>
LandWord == <<108, 97, 110, 100>>
TrailorWord == <<116, 114, 97, 105, 108, 111, 114>>
StorageWord == <<115, 116, 111, 114, 97, 103, 101>>

\* parseLocationType comparing the word as typed, without tolower.
parseLocationType_CaseSensitive(locStr) ==
    LET word == Prefix(locStr, 31)
    IN  IF word = SlipWord THEN "SLIP"
        ELSE IF word = LandWord THEN "LAND"
        ELSE IF word = TrailorWord THEN "TRAILOR"
        ELSE IF word = StorageWord THEN "STORAGE"
        ELSE "SLIP"

parseLocationType(locStr) ==
    LET lower == LowerStr(Prefix(locStr, 31))
    IN  IF lower = SlipWord THEN "SLIP"
        ELSE IF lower = LandWord THEN "LAND"
        ELSE IF lower = TrailorWord THEN "TRAILOR"
        ELSE IF lower = StorageWord THEN "STORAGE"
        ELSE "SLIP"

locationTypeString(t) ==
    CASE t = "SLIP" -> SlipWord
      [] t = "LAND" -> LandWord
      [] t = "TRAILOR" -> TrailorWord
      [] t = "STORAGE" -> StorageWord
      [] OTHER -> SlipWord

\* ---------------------------------------------------------------- scanning
RECURSIVE SkipWs(_, _)
SkipWs(s, i) == IF i <= Len(s) /\ isspace(s[i]) THEN SkipWs(s, i + 1) ELSE i

RECURSIVE SpanNotComma(_, _)
SpanNotComma(s, i) ==
    IF i <= Len(s) /\ s[i] # 44 THEN SpanNotComma(s, i + 1) ELSE i

RECURSIVE SpanDigits(_, _)
SpanDigits(s, i) == IF i <= Len(s) /\ isdigit(s[i]) THEN SpanDigits(s, i + 1) ELSE i

\* The number written by the digits s[i..j-1] (0 when there are none).
RECURSIVE DigitsVal(_, _, _)
DigitsVal(s, i, j) ==
    IF j <= i THEN 0 ELSE DigitsVal(s, i, j - 1) * 10 + (s[j - 1] - 48)

\* "%d": white space, an optional sign, at least one digit.
ScanInt(s, i) ==
    LET a == SkipWs(s, i)
        b == IF CharAt(s, a) \in {43, 45} THEN a + 1 ELSE a
        c == SpanDigits(s, b)
        v == DigitsVal(s, b, c)
    IN  [ok |-> c > b, val |-> IF CharAt(s, a) = 45 THEN -v ELSE v, next |-> c]

\* "%lf": white space, an optional sign, digits with an optional fraction;
\* the value in mills (fraction digits past the third are dropped).
ScanDouble(s, i) ==
    LET a == SkipWs(s, i)
        b == IF CharAt(s, a) \in {43, 45} THEN a + 1 ELSE a
        c == SpanDigits(s, b)
        hasDot == CharAt(s, c) = 46
        d == IF hasDot THEN SpanDigits(s, c + 1) ELSE c
        nfrac == IF hasDot THEN d - (c + 1) ELSE 0
        anyDigit == c > b \/ nfrac > 0
        f1 == IF nfrac >= 1 THEN s[c + 1] - 48 ELSE 0
        f2 == IF nfrac >= 2 THEN s[c + 2] - 48 ELSE 0
        f3 == IF nfrac >= 3 THEN s[c + 3] - 48 ELSE 0
        v == DigitsVal(s, b, c) * 1000 + f1 * 100 + f2 * 10 + f3
    IN  [ok |-> anyDigit, val |-> IF CharAt(s, a) = 45 THEN -v ELSE v, next |-> d]

atoi(s) == ScanInt(s, 1).val

\* "%[^,]": at least one character other than a comma.
ScanSet(s, i) ==
    [ok |-> SpanNotComma(s, i) > i,
     val |-> SubSeq(s, i, SpanNotComma(s, i) - 1),
     next |-> SpanNotComma(s, i)]

\* What sscanf leaves when no conversion is made (the arrays and numbers it
\* was given are not written; they are shown empty).
Unset ==
    [n |-> 0, boatName |-> <<>>, length |-> 0, locStr |-> <<>>,
     detailStr |-> <<>>, owed |-> 0]

\* sscanf(line, " %[^,],%d,%[^,],%[^,],%lf", ...), one conversion at a
\* time: c is the conversion just tried, r what the earlier ones stored.
\* n is the number of conversions made, which is what sscanf returns.
Conv5(line, r, c) ==
    IF ~c.ok THEN r ELSE [r EXCEPT !.n = 5, !.owed = c.val]

Conv4(line, r, c) ==
    IF ~c.ok THEN r
    ELSE IF CharAt(line, c.next) # 44 THEN [r EXCEPT !.n = 4, !.detailStr = c.val]
    ELSE Conv5(line, [r EXCEPT !.n = 4, !.detailStr = c.val],
               ScanDouble(line, c.next + 1))

Conv3(line, r, c) ==
    IF ~c.ok THEN r
    ELSE IF CharAt(line, c.next) # 44 THEN [r EXCEPT !.n = 3, !.locStr = c.val]
    ELSE Conv4(line, [r EXCEPT !.n = 3, !.locStr = c.val],
               ScanSet(line, c.next + 1))

Conv2(line, r, c) ==
    IF ~c.ok THEN r
    ELSE IF CharAt(line, c.next) # 44 THEN [r EXCEPT !.n = 2, !.length = c.val]
    ELSE Conv3(line, [r EXCEPT !.n = 2, !.length = c.val],
               ScanSet(line, c.next + 1))

Conv1(line, r, c) ==
    IF ~c.ok THEN r
    ELSE IF CharAt(line, c.next) # 44 THEN [r EXCEPT !.n = 1, !.boatName = c.val]
    ELSE Conv2(line, [r EXCEPT !.n = 1, !.boatName = c.val],
               ScanInt(line, c.next + 1))

sscanf5(line) == Conv1(line, Unset, ScanSet(line, SkipWs(line, 1)))

\* -------------------------------------------------------------- formatting
RECURSIVE NatToStr(_)
NatToStr(n) == IF n < 10 THEN <<48 + n>> ELSE NatToStr(n \div 10) \o <<48 + (n % 10)>>

\* "%d"
FormatInt(n) == IF n < 0 THEN <<45>> \o NatToStr(-n) ELSE NatToStr(n)

\* "%.2f" of an amount in mills: rounded to the nearest cent.
FormatOwed(m) ==
    LET a == IF m < 0 THEN -m ELSE m
        cents == (a + 5) \div 10
    IN  (IF m < 0 THEN <<45>> ELSE <<>>) \o NatToStr(cents \div 100) \o <<46>>
        \o <<48 + ((cents \div 10) % 10), 48 + (cents % 10)>>

\* ------------------------------------------------------------------ records
\* The Boat that createBoat initialises (the union holds the member that
\* belongs to locType).
createBoat(name, length, locType, detailStr, owed) ==
    [name |-> Prefix(name, MAX_NAME - 1),
     length |-> length,
     locType |-> locType,
     detail |-> CASE locType = "SLIP" -> atoi(detailStr)
                  [] locType = "LAND" -> CharAt(detailStr, 1)
                  [] locType = "TRAILOR" -> Prefix(detailStr, 31)
                  [] locType = "STORAGE" -> atoi(detailStr),
     amountOwed |-> owed]

\* One fprintf of saveToCSV.
SaveLine(b) ==
    b.name \o Comma \o FormatInt(b.length) \o Comma
    \o locationTypeString(b.locType) \o Comma
    \o (CASE b.locType = "SLIP" -> FormatInt(b.detail)
          [] b.locType = "LAND" -> <<b.detail>>
          [] b.locType = "TRAILOR" -> b.detail
          [] b.locType = "STORAGE" -> FormatInt(b.detail))
    \o Comma \o FormatOwed(b.amountOwed) \o Newline

\* ------------------------------------------------------------------- inputs
\* "a,20,slip,27,1200.00"
Line1 == <<97, 44, 50, 48, 44, 115, 108, 105, 112, 44, 50, 55, 44, 49, 50, 48, 48, 46, 48, 48>>
\* "A,100,Land,C,0.004"
Line2 == <<65, 44, 49, 48, 48, 44, 76, 97, 110, 100, 44, 67, 44, 48, 46, 48, 48, 52>>
\* "ab,50,TRAILOR,XY1,99.00"
Line3 == <<97, 98, 44, 53, 48, 44, 84, 82, 65, 73, 76, 79, 82, 44, 88, 89, 49, 44, 57, 57, 46, 48, 48>>
\* "B,100,StoRage,x7,50.00"
Line4 == <<66, 44, 49, 48, 48, 44, 83, 116, 111, 82, 97, 103, 101, 44, 120, 55, 44, 53, 48, 46, 48, 48>>
\* "Foo,10,submarine,5,0.00"
Line5 == <<70, 111, 111, 44, 49, 48, 44, 115, 117, 98, 109, 97, 114, 105, 110, 101, 44, 53, 44, 48, 46, 48, 48>>
\* "zz,-4,land,7,10.00"
Line6 == <<122, 122, 44, 45, 52, 44, 108, 97, 110, 100, 44, 55, 44, 49, 48, 46, 48, 48>>
\* "a,20,slip"
Bad1 == <<97, 44, 50, 48, 44, 115, 108, 105, 112>>
\* "b,xx,slip,1,2.00"
Bad2 == <<98, 44, 120, 120, 44, 115, 108, 105, 112, 44, 49, 44, 50, 46, 48, 48>>

\* The lines typed at the prompt of addBoat.
AddLines == {Line2, Line3, Line5, Bad1, Bad2}

\* The names typed at the prompts of removeBoat and acceptPayment:
\* "A", "AB", "b", "FOO", "zz".
NameInputs == {<<65>>, <<65, 66>>, <<98>>, <<70, 79, 79>>, <<122, 122>>}

\* A line as fgets returns it from the file.
FileLine(l) == l \o Newline

\* A file holding one line more than the array has room for.
OverfullLines ==
    [i \in 1..(MAX_BOATS + 1) |->
        FileLine(<<Line3, Line1, Line2, Line4>>[((i - 1) % 4) + 1])]

NoFile == [exists |-> FALSE, lines |-> <<>>]

\* The CSV files the program is started on.
Files ==
    {NoFile,
     [exists |-> TRUE, lines |-> <<FileLine(Line1), FileLine(Bad1), FileLine(Line2)>>],
     [exists |-> TRUE,
      lines |-> <<FileLine(Bad2), FileLine(Line5), FileLine(Line6)>>],
     [exists |-> TRUE, lines |-> <<FileLine(Line4), FileLine(Line1), FileLine(Bad1)>>],
     [exists |-> TRUE, lines |-> OverfullLines]}

NoPay == [ok |-> FALSE, val |-> 0]

\* ------------------------------------------------------------- the manager
\* main(): numBoats = 0 and every slot NULL; nothing allocated yet.
EmptyManager ==
    [boats |-> [i \in Slots |-> NULL],
     numBoats |-> 0,
     heap |-> <<>>,
     badFree |-> FALSE]

Manager ==
    [boats |-> boats, numBoats |-> numBoats, heap |-> heap, badFree |-> badFree]

\* The address malloc(sizeof(Boat)) returns.
malloc(m) ==
    LET free == Ptrs \ DOMAIN m.heap
    IN  CHOOSE p \in free : \A q \in free : p <= q

\* The heap once the struct at the new address p is initialised to b.
Alloc(m, p, b) ==
    [m EXCEPT !.heap = [q \in (DOMAIN m.heap) \cup {p} |->
                           IF q = p THEN b ELSE m.heap[q]]]

\* free(p)
Free(m, p) ==
    IF p = NULL THEN m
    ELSE IF p \notin DOMAIN m.heap THEN [m EXCEPT !.badFree = TRUE]
    ELSE [m EXCEPT !.heap = [q \in (DOMAIN m.heap) \ {p} |-> m.heap[q]]]

boatCompareByName(p1, p2, h) ==
    IF p1 = NULL /\ p2 = NULL THEN 0
    ELSE IF p1 = NULL THEN 1
    ELSE IF p2 = NULL THEN -1
    ELSE caseInsensitiveCompare(h[p1].name, h[p2].name)

Injective(f) == \A x, y \in DOMAIN f : f[x] = f[y] => x = y

\* The rearrangements qsort() can make of an array of n elements.
Rearrangements ==
    [n \in 0..MAX_BOATS |-> {g \in [0..(n - 1) -> 0..(n - 1)] : Injective(g)}]

\* sortBoatsByName without the call of qsort.
sortBoatsByName_NoSort(bs, n, h) == {bs}

\* qsort() of the first n slots: every arrangement of them that is in order
\* under boatCompareByName (elements that compare equal may come out in any
\* order).
sortBoatsByName(bs, n, h) ==
    LET cmp == [i \in 0..(n - 1) |-> [j \in 0..(n - 1) |->
                   boatCompareByName(bs[i], bs[j], h)]]
    IN  {[i \in Slots |-> IF i < n THEN bs[f[i]] ELSE bs[i]] :
            f \in {g \in Rearrangements[n] :
                    \A i \in 0..(n - 2) : cmp[g[i]][g[i + 1]] <= 0}}

\* The body of the while loop of loadFromCSV for one line.
LoadLine(line, m) ==
    LET s == sscanf5(line)
        b == createBoat(s.boatName, s.length, parseLocationType(s.locStr),
                        s.detailStr, s.owed)
        p == malloc(m)
        a == Alloc(m, p, b)
    IN  IF s.n # 5 THEN m
        ELSE IF m.numBoats < MAX_BOATS
             THEN [a EXCEPT !.boats[m.numBoats] = p,
                            !.numBoats = m.numBoats + 1]
             ELSE Free(a, p)

\* The while loop of loadFromCSV leaving at the first line sscanf rejects.
RECURSIVE LoadLoop_Abort(_, _, _)
LoadLoop_Abort(lines, k, m) ==
    IF k > Len(lines) \/ sscanf5(lines[k]).n # 5 THEN m
    ELSE LoadLoop_Abort(lines, k + 1, LoadLine(lines[k], m))

RECURSIVE LoadLoop(_, _, _)
LoadLoop(lines, k, m) ==
    IF k > Len(lines) THEN m ELSE LoadLoop(lines, k + 1, LoadLine(lines[k], m))

\* loadFromCSV on the manager main() has just initialised: the managers it
\* can leave behind.
loadFromCSV(f) ==
    IF ~f.exists THEN {EmptyManager}
    ELSE LET m == LoadLoop(f.lines, 1, EmptyManager)
         IN  {[m EXCEPT !.boats = bs] :
                 bs \in sortBoatsByName(m.boats, m.numBoats, m.heap)}

\* The for loop of saveToCSV from slot i on: one line per boat, NULL slots
\* skipped.
RECURSIVE SaveLoop(_, _)
SaveLoop(m, i) ==
    IF i >= m.numBoats THEN <<>>
    ELSE (IF m.boats[i] # NULL THEN <<SaveLine(m.heap[m.boats[i]])>> ELSE <<>>)
         \o SaveLoop(m, i + 1)

\* The text saveToCSV writes.
saveToCSV(m) == SaveLoop(m, 0)

findBoatIndex(m, name) ==
    LET hits == {i \in 0..(m.numBoats - 1) :
                    caseInsensitiveCompare(m.heap[m.boats[i]].name, name) = 0}
    IN  IF hits = {} THEN -1 ELSE CHOOSE i \in hits : \A j \in hits : i <= j

\* The for loop of removeBoat that closes the gap at idx.
ShiftLeft(bs, idx, n) ==
    [i \in Slots |-> IF i >= idx /\ i < n - 1 THEN bs[i + 1] ELSE bs[i]]

\* removeBoat without the call of free.
RemoveAt_NoFree(m, idx) ==
    LET z == [m EXCEPT !.boats[idx] = NULL]
    IN  [z EXCEPT !.boats = ShiftLeft(z.boats, idx, m.numBoats),
                  !.numBoats = m.numBoats - 1]

\* removeBoat once the name is found at idx, up to the final sort.
RemoveAt(m, idx) ==
    LET f == Free(m, m.boats[idx])
        z == [f EXCEPT !.boats[idx] = NULL]
    IN  [z EXCEPT !.boats = ShiftLeft(z.boats, idx, m.numBoats),
                  !.numBoats = m.numBoats - 1]

\* The switch of monthlyUpdate with the LAND case charging the slip rate.
MonthlyCharge_WrongRate(b) ==
    CASE b.locType = "SLIP" -> MONTH_SLIP * b.length
      [] b.locType = "LAND" -> MONTH_SLIP * b.length
      [] b.locType = "TRAILOR" -> MONTH_TRAILOR * b.length
      [] b.locType = "STORAGE" -> MONTH_STORAGE * b.length
      [] OTHER -> 0

\* The charge of monthlyUpdate for one boat.
MonthlyCharge(b) ==
    CASE b.locType = "SLIP" -> MONTH_SLIP * b.length
      [] b.locType = "LAND" -> MONTH_LAND * b.length
      [] b.locType = "TRAILOR" -> MONTH_TRAILOR * b.length
      [] b.locType = "STORAGE" -> MONTH_STORAGE * b.length
      [] OTHER -> 0

\* The for loop of monthlyUpdate from slot i on.
RECURSIVE MonthLoop(_, _)
MonthLoop(m, i) ==
    IF i >= m.numBoats THEN m
    ELSE IF m.boats[i] = NULL THEN MonthLoop(m, i + 1)
    ELSE MonthLoop([m EXCEPT !.heap[m.boats[i]].amountOwed =
                                  @ + MonthlyCharge(m.heap[m.boats[i]])], i + 1)

monthlyUpdate(m) == MonthLoop(m, 0)

RECURSIVE FreeLoop(_, _)
FreeLoop(m, i) ==
    IF i >= m.numBoats THEN m
    ELSE FreeLoop([Free(m, m.boats[i]) EXCEPT !.boats[i] = NULL], i + 1)

freeAllBoats(m) == [FreeLoop(m, 0) EXCEPT !.numBoats = 0]

\* ------------------------------------------------------------------ actions
SetManager(m) ==
    /\ boats' = m.boats
    /\ numBoats' = m.numBoats
    /\ heap' = m.heap
    /\ badFree' = m.badFree

Init ==
    /\ pc = "start"
    /\ file \in Files
    /\ boats = EmptyManager.boats
    /\ numBoats = 0
    /\ heap = <<>>
    /\ badFree = FALSE
    /\ lastOp = "none"
    /\ result = "none"
    /\ cmds = 0

\* fgets(cmd, ...) in the menu loop returns a command.
ReadCommand ==
    /\ cmds < MaxCmds
    /\ cmds' = cmds + 1

LoadFromCSV ==
    /\ pc = "start"
    /\ \E m \in loadFromCSV(file) : SetManager(m)
    /\ pc' = "menu"
    /\ lastOp' = "load"
    /\ result' = "ok"
    /\ UNCHANGED <<file, cmds>>

\* addBoat with the capacity test written numBoats++ >= MAX_BOATS.
AddBoat_PostIncrement(line) ==
    /\ pc = "menu"
    /\ ReadCommand
    /\ LET s == sscanf5(line)
           b == createBoat(s.boatName, s.length, parseLocationType(s.locStr),
                           s.detailStr, s.owed)
           p == malloc(Manager)
           a == Alloc(Manager, p, b)
           put == [a EXCEPT !.boats[numBoats + 1] = p, !.numBoats = numBoats + 2]
       IN  IF s.n # 5
           THEN result' = "Invalid" /\ UNCHANGED <<boats, numBoats, heap, badFree>>
           ELSE IF numBoats >= MAX_BOATS
           THEN /\ result' = "Full"
                /\ numBoats' = numBoats + 1
                /\ UNCHANGED <<boats, heap, badFree>>
           ELSE /\ numBoats + 1 < MAX_BOATS
                /\ result' = "ok"
                /\ \E bs \in sortBoatsByName(put.boats, put.numBoats, put.heap) :
                      SetManager([put EXCEPT !.boats = bs])
    /\ lastOp' = "add"
    /\ UNCHANGED <<pc, file>>

\* addBoat when the line typed is line.
AddBoat(line) ==
    /\ pc = "menu"
    /\ ReadCommand
    /\ LET s == sscanf5(line)
           b == createBoat(s.boatName, s.length, parseLocationType(s.locStr),
                           s.detailStr, s.owed)
           p == malloc(Manager)
           a == Alloc(Manager, p, b)
           put == [a EXCEPT !.boats[numBoats] = p, !.numBoats = numBoats + 1]
       IN  IF s.n # 5
           THEN result' = "Invalid" /\ UNCHANGED <<boats, numBoats, heap, badFree>>
           ELSE IF numBoats >= MAX_BOATS
           THEN result' = "Full" /\ UNCHANGED <<boats, numBoats, heap, badFree>>
           ELSE /\ result' = "ok"
                /\ numBoats' = put.numBoats
                /\ heap' = put.heap
                /\ badFree' = put.badFree
                /\ boats' \in sortBoatsByName(put.boats, put.numBoats, put.heap)
    /\ lastOp' = "add"
    /\ UNCHANGED <<pc, file>>

\* removeBoat when the name typed is name.
RemoveBoat(name) ==
    /\ pc = "menu"
    /\ ReadCommand
    /\ LET idx == findBoatIndex(Manager, name)
           r == RemoveAt(Manager, idx)
       IN  IF idx < 0
           THEN result' = "NotFound" /\ UNCHANGED <<boats, numBoats, heap, badFree>>
           ELSE /\ result' = "ok"
                /\ \E bs \in sortBoatsByName(r.boats, r.numBoats, r.heap) :
                      SetManager([r EXCEPT !.boats = bs])
    /\ lastOp' = "remove"
    /\ UNCHANGED <<pc, file>>

\* The test of acceptPayment written with >= for >.
Overpays_OrEqual(payment, owed) == payment >= owed

\* The test of acceptPayment that refuses a payment.
Overpays(payment, owed) == payment > owed

\* The amounts typed at the second prompt of acceptPayment for a boat that
\* owes owed: the balance, one cent more, 1000.00, -1000.00, and text that
\* scanf("%lf") cannot convert (ok = FALSE).
PayInputs(owed) ==
    {[ok |-> TRUE, val |-> v] : v \in {owed, owed + 10, 1000000, -1000000}}
    \cup {NoPay}

\* acceptPayment when the name typed is name and the amount typed is pay
\* (the amount is not asked for when the name is not found).
AcceptPayment(name, pay) ==
    /\ pc = "menu"
    /\ ReadCommand
    /\ LET idx == findBoatIndex(Manager, name)
       IN  IF idx < 0
           THEN result' = "NotFound" /\ UNCHANGED heap
           ELSE LET p == boats[idx]
                IN  /\ pay \in PayInputs(heap[p].amountOwed)
                    /\ IF ~pay.ok
                       THEN result' = "BadAmount" /\ UNCHANGED heap
                       ELSE IF Overpays(pay.val, heap[p].amountOwed)
                       THEN result' = "Overpayment" /\ UNCHANGED heap
                       ELSE /\ result' = "ok"
                            /\ heap' = [heap EXCEPT ![p].amountOwed = @ - pay.val]
    /\ lastOp' = "payment"
    /\ UNCHANGED <<pc, file, boats, numBoats, badFree>>

\* The amounts typed after name: none when the name is not found.
PayChoices(name) ==
    IF pc # "menu" \/ cmds >= MaxCmds \/ findBoatIndex(Manager, name) < 0
    THEN {NoPay}
    ELSE PayInputs(heap[boats[findBoatIndex(Manager, name)]].amountOwed)

MonthlyUpdate ==
    /\ pc = "menu"
    /\ ReadCommand
    /\ SetManager(monthlyUpdate(Manager))
    /\ lastOp' = "month"
    /\ result' = "ok"
    /\ UNCHANGED <<pc, file>>

\* 'x' or end of input: saveToCSV, freeAllBoats, return.  writable is
\* whether fopen(filename, "w") succeeds.
Exit(writable) ==
    /\ pc = "menu"
    /\ file' = IF writable
               THEN [exists |-> TRUE, lines |-> saveToCSV(Manager)]
               ELSE file
    /\ result' = IF writable THEN "ok" ELSE "WriteFailure"
    /\ SetManager(freeAllBoats(Manager))
    /\ pc' = "done"
    /\ lastOp' = "exit"
    /\ UNCHANGED cmds

Next ==
    \/ LoadFromCSV
    \/ \E line \in AddLines : AddBoat(line)
    \/ \E name \in NameInputs : RemoveBoat(name)
    \/ \E name \in NameInputs : \E pay \in PayChoices(name) : AcceptPayment(name, pay)
    \/ MonthlyUpdate
    \/ \E writable \in BOOLEAN : Exit(writable)

Spec == Init /\ [][Next]_vars

\* ======================================================================
\* Properties
\* ======================================================================

\* The Boat in active slot i.
BoatAt(i) == heap[boats[i]]

\* The active records, in order.
Records == [k \in 1..numBoats |-> BoatAt(k - 1)]

\* The addresses in the active slots, in order.
ActivePtrs == [k \in 1..numBoats |-> boats[k - 1]]

\* Lower-case folding as the specification states it.
Fold(s) == [i \in 1..Len(s) |-> IF s[i] \in 65..90 THEN s[i] + 32 ELSE s[i]]

\* Case-insensitive exact match.
SameName(a, b) == Fold(a) = Fold(b)

\* a is not after b in case-insensitive lexicographic order: the folded
\* names agree up to some position k, where a ends or holds the smaller
\* character.
NameLeq(a, b) ==
    \E k \in 0..Len(a) :
        /\ k <= Len(b)
        /\ \A j \in 1..k : Fold(a)[j] = Fold(b)[j]
        /\ \/ k = Len(a)
           \/ k < Len(b) /\ Fold(a)[k + 1] < Fold(b)[k + 1]

\* The first active slot whose name matches name, -1 when there is none.
FirstMatch(name) ==
    IF \E i \in 0..(numBoats - 1) : SameName(BoatAt(i).name, name)
    THEN CHOOSE i \in 0..(numBoats - 1) :
            /\ SameName(BoatAt(i).name, name)
            /\ \A j \in 0..(i - 1) : ~SameName(BoatAt(j).name, name)
    ELSE -1

StoreUnchanged == UNCHANGED <<boats, numBoats, heap>>

\* C1: after loadFromCSV and after every command, the active records are in
\* non-decreasing case-insensitive name order.
C1_SortedByName ==
    pc = "menu" =>
        \A i \in 0..(numBoats - 2) : NameLeq(BoatAt(i).name, BoatAt(i + 1).name)

\* C1 witness: an add has put a third boat into a store whose names differ.
C1_Witness ==
    /\ pc = "menu" /\ lastOp = "add" /\ result = "ok" /\ numBoats = 3
    /\ ~SameName(BoatAt(0).name, BoatAt(2).name)

\* C2: numBoats never exceeds MAX_BOATS, and an add of a well-formed line to
\* a store that holds MAX_BOATS boats reports Full and changes nothing.
C2_AddWhenFull ==
    \A line \in AddLines :
        (numBoats = MAX_BOATS /\ lastOp' = "add" /\ sscanf5(line).n = 5
            /\ AddBoat(line))
            => (result' = "Full" /\ StoreUnchanged)

C2_Capacity == [](numBoats <= MAX_BOATS) /\ [][C2_AddWhenFull]_vars

\* C2 witness: an add was refused on a full store.
C2_Witness ==
    pc = "menu" /\ lastOp = "add" /\ result = "Full" /\ numBoats = MAX_BOATS

\* C3: a payment equal to the balance of the first matching boat zeroes it, a
\* larger one is refused with Overpayment, any other is subtracted; a refused
\* payment or an unknown name changes nothing, a payment made changes only
\* the balance of that boat.
C3_PaymentStep(name, pay) ==
    LET idx == FirstMatch(name)
        p == boats[idx]
        owed == heap[p].amountOwed
    IN  IF idx < 0 THEN result' = "NotFound" /\ StoreUnchanged
        ELSE IF ~pay.ok THEN StoreUnchanged
        ELSE /\ UNCHANGED <<boats, numBoats>>
             /\ DOMAIN heap' = DOMAIN heap
             /\ \A q \in DOMAIN heap : q # p => heap'[q] = heap[q]
             /\ heap'[p] = [heap[p] EXCEPT !.amountOwed = heap'[p].amountOwed]
             /\ IF pay.val = owed
                THEN result' = "ok" /\ heap'[p].amountOwed = 0
                ELSE IF pay.val > owed
                THEN result' = "Overpayment" /\ heap'[p].amountOwed = owed
                ELSE result' = "ok" /\ heap'[p].amountOwed = owed - pay.val

C3_Payment ==
    [][\A name \in NameInputs : \A pay \in PayChoices(name) :
          (lastOp' = "payment" /\ AcceptPayment(name, pay))
              => C3_PaymentStep(name, pay)]_vars

\* C3 witness: boat "a" or "A", which never starts at zero, was paid off.
C3_Witness ==
    /\ pc = "menu" /\ lastOp = "payment" /\ result = "ok"
    /\ \E i \in 0..(numBoats - 1) :
          SameName(BoatAt(i).name, <<97>>) /\ BoatAt(i).amountOwed = 0

\* The sequence s without its k-th element.
Without(s, k) == [j \in 1..(Len(s) - 1) |-> IF j < k THEN s[j] ELSE s[j + 1]]

\* C4: removeBoat deletes exactly the first record whose name matches
\* ignoring case and keeps the others, unchanged, in their relative order;
\* with no match it reports NotFound and changes nothing.
C4_RemoveStep(name) ==
    LET idx == FirstMatch(name)
    IN  IF idx < 0 THEN result' = "NotFound" /\ StoreUnchanged
        ELSE /\ result' = "ok"
             /\ numBoats' = numBoats - 1
             /\ Records' = Without(Records, idx + 1)

C4_Remove ==
    [][\A name \in NameInputs : RemoveBoat(name) => C4_RemoveStep(name)]_vars

\* The per-foot rates of the specification, in mills.
Rate(kind) ==
    CASE kind = "SLIP" -> 12500
      [] kind = "LAND" -> 14000
      [] kind = "TRAILOR" -> 25000
      [] kind = "STORAGE" -> 11200

\* C5: monthlyUpdate adds rate(locationKind) * length to the balance of
\* every active record (a 20 foot slip boat owing 1200.00 owes 1450.00) and
\* changes nothing else; it cannot fail.
C5_MonthStep ==
    /\ result' = "ok"
    /\ UNCHANGED <<boats, numBoats>>
    /\ DOMAIN heap' = DOMAIN heap
    /\ \A i \in 0..(numBoats - 1) :
          /\ heap'[boats[i]] =
                [BoatAt(i) EXCEPT !.amountOwed =
                                      @ + Rate(BoatAt(i).locType) * BoatAt(i).length]
          /\ (BoatAt(i).locType = "SLIP" /\ BoatAt(i).length = 20
                /\ BoatAt(i).amountOwed = 1200000)
             => heap'[boats[i]].amountOwed = 1450000

C5_MonthlyCharge == [][MonthlyUpdate => C5_MonthStep]_vars

\* C5 witness: the 20 foot slip boat has been charged from 1200.00 to
\* 1450.00 beside a boat of another kind.
C5_Witness ==
    /\ pc = "menu" /\ lastOp = "month" /\ numBoats >= 2
    /\ \E i \in 0..(numBoats - 1) :
          /\ BoatAt(i).locType = "SLIP" /\ BoatAt(i).length = 20
          /\ BoatAt(i).amountOwed = 1450000
    /\ \E i \in 0..(numBoats - 1) : BoatAt(i).locType # "SLIP"

\* C6: saving the store and loading the text written into an empty store
\* gives the same number of records and, record for record, the same fields.
C6_RoundTrip ==
    pc = "menu" =>
        \A m \in loadFromCSV([exists |-> TRUE, lines |-> saveToCSV(Manager)]) :
            /\ m.numBoats = numBoats
            /\ \A i \in 0..(numBoats - 1) : m.heap[m.boats[i]] = BoatAt(i)

\* The comma-separated fields of a line, from position i on.
RECURSIVE Fields(_, _)
Fields(s, i) ==
    LET commas == {j \in i..Len(s) : s[j] = 44}
        e == IF commas = {} THEN Len(s) + 1
             ELSE CHOOSE j \in commas : \A k \in commas : j <= k
    IN  <<SubSeq(s, i, e - 1)>> \o (IF e <= Len(s) THEN Fields(s, e + 1) ELSE <<>>)

RECURSIVE StripLead(_)
StripLead(f) ==
    IF f # <<>> /\ f[1] \in {32, 9, 10, 11, 12, 13} THEN StripLead(Tail(f)) ELSE f

Unsigned(f) == IF f # <<>> /\ f[1] \in {43, 45} THEN Tail(f) ELSE f

AllDigits(f) == f # <<>> /\ \A j \in 1..Len(f) : f[j] \in 48..57

RECURSIVE Decimal(_)
Decimal(f) ==
    IF f = <<>> THEN 0 ELSE Decimal(SubSeq(f, 1, Len(f) - 1)) * 10 + (f[Len(f)] - 48)

\* Five fields can be extracted from the line: a name, an integer length, a
\* kind word, a detail, and an amount that starts as a number.
Extractable(line) ==
    LET fs == Fields(line, 1)
        amt == Unsigned(StripLead(fs[5]))
    IN  /\ Len(fs) >= 5
        /\ StripLead(fs[1]) # <<>>
        /\ AllDigits(Unsigned(StripLead(fs[2])))
        /\ fs[3] # <<>>
        /\ fs[4] # <<>>
        /\ amt # <<>>
        /\ \/ amt[1] \in 48..57
           \/ Len(amt) >= 2 /\ amt[1] = 46 /\ amt[2] \in 48..57

NameField(line) == StripLead(Fields(line, 1)[1])

GoodLines(f) == {k \in 1..Len(f.lines) : Extractable(f.lines[k])}

\* C7: loadFromCSV skips a malformed line and goes on: when the well-formed
\* lines fit, the store holds one record per line with five extractable
\* fields and none for any other line, wherever the malformed lines are.
C7_LoadSkipsMalformed ==
    (lastOp = "load" /\ Cardinality(GoodLines(file)) <= MAX_BOATS) =>
        /\ numBoats = Cardinality(GoodLines(file))
        /\ \A k \in 1..Len(file.lines) :
              LET n == NameField(file.lines[k])
              IN  Cardinality({i \in 0..(numBoats - 1) : BoatAt(i).name = n})
                  = Cardinality({j \in GoodLines(file) : NameField(file.lines[j]) = n})

\* C7 witness: a file with malformed lines in the middle or at the start
\* was loaded, and the line after the malformed one is in the store.
C7_Witness ==
    /\ lastOp = "load" /\ Len(file.lines) >= 2
    /\ ~Extractable(file.lines[Len(file.lines) - 1])
    /\ Extractable(file.lines[Len(file.lines)])
    /\ \E i \in 0..(numBoats - 1) :
          BoatAt(i).name = NameField(file.lines[Len(file.lines)])

\* The location kind the specification gives a kind word.
KindOfWord(w) ==
    CASE Fold(w) = SlipWord -> "SLIP"
      [] Fold(w) = LandWord -> "LAND"
      [] Fold(w) = TrailorWord -> "TRAILOR"
      [] Fold(w) = StorageWord -> "STORAGE"
      [] OTHER -> "SLIP"

Recognised(w) == Fold(w) \in {SlipWord, LandWord, TrailorWord, StorageWord}

\* The record the specification expects of a well-formed line, as far as
\* the kind word decides it.
KindParsed(line, b) ==
    LET fs == Fields(line, 1)
    IN  /\ b.name = NameField(line)
        /\ b.locType = KindOfWord(fs[3])
        /\ ~Recognised(fs[3]) =>
              /\ b.locType = "SLIP"
              /\ b.detail \in Int
              /\ AllDigits(fs[4]) => b.detail = Decimal(fs[4])

\* C8: the kind word never fails a line: slip, land, trailor and storage in
\* any letter case give their kind, any other word gives Slip with the
\* detail read as an integer, and the line still produces a record.
C8_AddStep(line) ==
    (Extractable(line) /\ numBoats < MAX_BOATS) =>
        /\ result' = "ok"
        /\ numBoats' = numBoats + 1
        /\ \E p \in DOMAIN heap' \ DOMAIN heap : KindParsed(line, heap'[p])

C8_LoadStep ==
    Cardinality(GoodLines(file)) <= MAX_BOATS =>
        \A k \in GoodLines(file) :
            \E p \in DOMAIN heap' : KindParsed(file.lines[k], heap'[p])

C8_KindWord ==
    [][/\ \A line \in AddLines :
             (lastOp' = "add" /\ AddBoat(line)) => C8_AddStep(line)
       /\ LoadFromCSV => C8_LoadStep]_vars

\* C8 witness: the line with the kind word "submarine" was added and is a
\* slip boat with slip number 5.
C8_Witness ==
    /\ pc = "menu" /\ lastOp = "add" /\ result = "ok" /\ ~file.exists
    /\ \E i \in 0..(numBoats - 1) :
          /\ BoatAt(i).name = <<70, 111, 111>>
          /\ BoatAt(i).locType = "SLIP" /\ BoatAt(i).detail = 5

\* The slot of address p among the first n of bs.
Pos(bs, n, p) == CHOOSE i \in 0..(n - 1) : bs[i] = p

\* Records p and q, both in the store before and after the step, keep their
\* relative order if their names are equal ignoring case.
KeepsOrder(p, q) ==
    (SameName(heap[p].name, heap[q].name)
        /\ Pos(boats, numBoats, p) < Pos(boats, numBoats, q))
    => Pos(boats', numBoats', p) < Pos(boats', numBoats', q)

\* C9: the sort is stable: records with names equal ignoring case keep their
\* relative order through loadFromCSV (the order of the file, which is the
\* order of allocation), addBoat (the new record last among them) and
\* removeBoat.
C9_StableStep ==
    /\ LoadFromCSV =>
          \A i, j \in 0..(numBoats' - 1) :
              (i < j /\ SameName(heap'[boats'[i]].name, heap'[boats'[j]].name))
                  => boats'[i] < boats'[j]
    /\ \A line \in AddLines : (AddBoat(line) /\ numBoats' = numBoats + 1) =>
          /\ \A p, q \in DOMAIN heap : KeepsOrder(p, q)
          /\ \A p \in DOMAIN heap : \A q \in DOMAIN heap' \ DOMAIN heap :
                SameName(heap[p].name, heap'[q].name)
                    => Pos(boats', numBoats', p) < Pos(boats', numBoats', q)
    /\ \A name \in NameInputs : (RemoveBoat(name) /\ numBoats' = numBoats - 1) =>
          \A p, q \in DOMAIN heap' : KeepsOrder(p, q)

C9_StableSort == [][C9_StableStep]_vars

\* C10: every active slot holds a live record of its own, no live record is
\* outside the active slots (a removed record is freed), nothing is freed
\* twice, and after the exit nothing is live.
C10_Ownership ==
    /\ ~badFree
    /\ \A i \in 0..(numBoats - 1) : boats[i] # NULL /\ boats[i] \in DOMAIN heap
    /\ \A i, j \in 0..(numBoats - 1) : boats[i] = boats[j] => i = j
    /\ DOMAIN heap = {boats[i] : i \in 0..(numBoats - 1)}
    /\ pc = "done" => (numBoats = 0 /\ DOMAIN heap = {})

\* C10 witness: the program has exited and freed every boat of a store that
\* still held boats (the file saved has lines) after a removal (which alone
\* leaves an address in a slot past numBoats).
C10_Witness ==
    /\ pc = "done" /\ ~badFree /\ DOMAIN heap = {}
    /\ file.exists /\ Len(file.lines) >= 1 /\ result = "ok"
    /\ \E i \in Slots : boats[i] # NULL

\* The record a payment under name is made to.
Paid(name) == boats[FirstMatch(name)]

\* A payment made never raises the balance of the boat paid.
C11_PaymentStep ==
    \A name \in NameInputs : \A pay \in PayChoices(name) :
        (lastOp' = "payment" /\ result' = "ok" /\ AcceptPayment(name, pay))
            => heap'[Paid(name)].amountOwed <= heap[Paid(name)].amountOwed

\* A monthly update never lowers a balance.
C11_MonthStep ==
    MonthlyUpdate =>
        \A p \in DOMAIN heap : heap'[p].amountOwed >= heap[p].amountOwed

\* Balances that are all non-negative stay so over payments and monthly
\* updates.
C11_NonNegStep ==
    (/\ lastOp' \in {"payment", "month"}
     /\ \A p \in DOMAIN heap : heap[p].amountOwed >= 0)
        => \A p \in DOMAIN heap' : heap'[p].amountOwed >= 0

\* C11: a payment made never leaves the balance of the paid boat greater
\* than it was, a monthly update never leaves a balance smaller than it was,
\* and so balances that are all non-negative remain non-negative after any
\* payments and monthly updates.
C11_Directions ==
    [][C11_PaymentStep /\ C11_MonthStep /\ C11_NonNegStep]_vars

====
